---- MODULE Spec2Model ----
(***************************************************************************)
(* Position-driven inspection of a Power Query / M document               *)
(* (src/src/inspection/inspection.ts).  tryFrom selects the leaf closest   *)
(* to the left of a caret position, walks the leaf's ancestors and returns *)
(* the nodes, the scope and the position identifier found on the way.      *)
(***************************************************************************)
EXTENDS Integers, Sequences, FiniteSets, TLC

(* ---------------------------- bounds ----------------------------------- *)

\* Caret positions range over lines 0..MaxLine and columns 0..MaxCol.
MaxLine == 1
MaxCol == 12
\* Leaf-id lists of at most MaxPermLen ids are taken in every order.
MaxPermLen == 4
\* Number of writes a caller makes to each collection of a returned record.
MaxCallerWrites == 1
\* Columns of the calls a caller repeats to compare two results.
MaxRepeatCol == 6
\* Lines of the body of a construct that may span lines.
MaxBodyLines == 4

(* ------------------------ values of the program ------------------------ *)

\* An Option<T> that is undefined (node ids are positive).
Undefined == 0
\* The marker of an exception that leaves a function instead of a value.
Thrown == 0 - 1
\* An absent Option<TPositionIdentifier>.
Absent == [kind |-> "Absent"]
\* What a caller writes into the collections of a record it was handed.
CallerNode == 0
CallerKey == "caller"

(* ------------------------------ documents ------------------------------ *)

\* An AST leaf: a node of astNodeById with a token range.
Leaf(kind, literal, parent, line, col, cu) ==
    [kind |-> kind, literal |-> literal, parent |-> parent, xor |-> "Ast",
     lineNumber |-> line, lineCodeUnit |-> col, codeUnit |-> cu,
     children |-> <<>>, identifier |-> Undefined]

\* An interior node, in astNodeById (xor = "Ast") or contextNodeById
\* (xor = "Context"); identifier is the IdentifierExpression's identifier.
Inner(kind, parent, xor, children, identifier) ==
    [kind |-> kind, literal |-> "", parent |-> parent, xor |-> xor,
     lineNumber |-> 0, lineCodeUnit |-> 0, codeUnit |-> 0,
     children |-> children, identifier |-> identifier]

\* `each _ + 1`
DocEachNodes ==
    << Inner("EachExpression", 0, "Ast", <<2, 3>>, Undefined),
       Leaf("Constant", "each", 1, 0, 0, 0),
       Inner("ArithmeticExpression", 1, "Ast", <<4, 6, 7>>, Undefined),
       Inner("IdentifierExpression", 3, "Ast", <<5>>, 5),
       Leaf("Identifier", "_", 4, 0, 5, 5),
       Leaf("Constant", "+", 3, 0, 7, 7),
       Leaf("LiteralExpression", "1", 3, 0, 9, 9) >>

\* `let x = 1 in` / `(x) => x + z` on two lines
DocLetNodes ==
    << Inner("LetExpression", 0, "Ast", <<2, 3, 7, 8>>, Undefined),
       Leaf("Constant", "let", 1, 0, 0, 0),
       Inner("IdentifierPairedExpression", 1, "Ast", <<4, 5, 6>>, Undefined),
       Leaf("Identifier", "x", 3, 0, 4, 4),
       Leaf("Constant", "=", 3, 0, 6, 6),
       Leaf("LiteralExpression", "1", 3, 0, 8, 8),
       Leaf("Constant", "in", 1, 0, 10, 10),
       Inner("FunctionExpression", 1, "Ast", <<9, 14, 15>>, Undefined),
       Inner("ParameterList", 8, "Ast", <<10, 11, 13>>, Undefined),
       Leaf("Constant", "(", 9, 1, 0, 13),
       Inner("Parameter", 9, "Ast", <<12>>, Undefined),
       Leaf("Identifier", "x", 11, 1, 1, 14),
       Leaf("Constant", ")", 9, 1, 2, 15),
       Leaf("Constant", "=>", 8, 1, 4, 17),
       Inner("ArithmeticExpression", 8, "Ast", <<16, 18, 19>>, Undefined),
       Inner("IdentifierExpression", 15, "Ast", <<17>>, 17),
       Leaf("Identifier", "x", 16, 1, 7, 20),
       Leaf("Constant", "+", 15, 1, 9, 22),
       Inner("IdentifierExpression", 15, "Ast", <<20>>, 20),
       Leaf("Identifier", "z", 19, 1, 11, 24) >>

\* `let f = @f in` / `f` on two lines
DocAtNodes ==
    << Inner("LetExpression", 0, "Ast", <<2, 3, 9, 10>>, Undefined),
       Leaf("Constant", "let", 1, 0, 0, 0),
       Inner("IdentifierPairedExpression", 1, "Ast", <<4, 5, 6>>, Undefined),
       Leaf("Identifier", "f", 3, 0, 4, 4),
       Leaf("Constant", "=", 3, 0, 6, 6),
       Inner("IdentifierExpression", 3, "Ast", <<7, 8>>, 8),
       Leaf("Constant", "@", 6, 0, 8, 8),
       Leaf("Identifier", "f", 6, 0, 9, 9),
       Leaf("Constant", "in", 1, 0, 11, 11),
       Inner("IdentifierExpression", 1, "Ast", <<11>>, 11),
       Leaf("Identifier", "f", 10, 1, 0, 14) >>

\* an `@` that has no parent, and an `@` under a parent of another kind
DocAtLooseNodes ==
    << Leaf("Constant", "@", 0, 0, 0, 0),
       Inner("ParenthesizedExpression", 0, "Ast", <<3, 4, 5>>, Undefined),
       Leaf("Constant", "(", 2, 0, 2, 2),
       Leaf("Constant", "@", 2, 0, 3, 3),
       Leaf("Constant", ")", 2, 0, 4, 4) >>

\* `let f = @` left unfinished by the parser: the interior nodes are
\* parser-context nodes, the leaves read so far are AST nodes
DocAtContextNodes ==
    << Inner("LetExpression", 0, "Context", <<2, 3>>, Undefined),
       Leaf("Constant", "let", 1, 0, 0, 0),
       Inner("IdentifierPairedExpression", 1, "Context", <<4, 5, 6>>, Undefined),
       Leaf("Identifier", "f", 3, 0, 4, 4),
       Leaf("Constant", "=", 3, 0, 6, 6),
       Inner("IdentifierExpression", 3, "Context", <<7>>, Undefined),
       Leaf("Constant", "@", 6, 0, 8, 8) >>

\* `1 +` whose leaf-id list also names node 3, which astNodeById lacks
DocMissingNodes ==
    << Leaf("LiteralExpression", "1", 3, 0, 0, 0),
       Leaf("Constant", "+", 3, 0, 2, 2),
       Inner("ArithmeticExpression", 0, "Context", <<1, 2>>, Undefined) >>

\* `each z` under a node of a kind the visitor fails on
DocUnhandledNodes ==
    << Inner("Unhandled", 0, "Ast", <<2>>, Undefined),
       Inner("EachExpression", 1, "Ast", <<3, 4>>, Undefined),
       Leaf("Constant", "each", 2, 0, 0, 0),
       Inner("IdentifierExpression", 2, "Ast", <<5>>, 5),
       Leaf("Identifier", "z", 4, 0, 5, 5) >>

Docs == {"DocEmpty", "DocEach", "DocLet", "DocAt", "DocAtLoose",
         "DocAtContext", "DocMissing", "DocUnhandled"}

\* The nodes of a document's NodeIdMap.Collection, by node id.
DocNodes(d) ==
    CASE d = "DocEach" -> DocEachNodes
      [] d = "DocLet" -> DocLetNodes
      [] d = "DocAt" -> DocAtNodes
      [] d = "DocAtLoose" -> DocAtLooseNodes
      [] d = "DocAtContext" -> DocAtContextNodes
      [] d = "DocMissing" -> DocMissingNodes
      [] d = "DocUnhandled" -> DocUnhandledNodes
      [] OTHER -> <<>>

\* The leaf ids the parser hands out with the document, in source order.
DocLeafIds(d) ==
    CASE d = "DocEach" -> <<2, 5, 6, 7>>
      [] d = "DocLet" -> <<2, 4, 5, 6, 7, 10, 12, 13, 14, 17, 18, 20>>
      [] d = "DocAt" -> <<2, 4, 5, 7, 8, 9, 11>>
      [] d = "DocAtLoose" -> <<1, 3, 4, 5>>
      [] d = "DocAtContext" -> <<2, 4, 5, 7>>
      [] d = "DocMissing" -> <<1, 2, 3>>
      [] d = "DocUnhandled" -> <<3, 5>>
      [] OTHER -> <<>>

NodeOf(d, id) == DocNodes(d)[id]

(* --------------------------- NodeIdMap --------------------------------- *)

\* The keys of nodeIdMapCollection.astNodeById.
astNodeById(d) == {id \in 1..Len(DocNodes(d)) : NodeOf(d, id).xor = "Ast"}

\* The keys of nodeIdMapCollection.contextNodeById.
contextNodeById(d) == {id \in 1..Len(DocNodes(d)) : NodeOf(d, id).xor = "Context"}

\* nodeIdMapCollection.parentIdById.get(id): the parent id or undefined.
parentIdById(d, id) == NodeOf(d, id).parent

\* NodeIdMap.expectAstNode: the node of astNodeById, an exception otherwise.
expectAstNode(d, nodeId) == IF nodeId \in astNodeById(d) THEN nodeId ELSE Thrown

\* NodeIdMap.maybeParentXorNode: the parent as a XorNode, the AST form first.
maybeParentXorNode(d, id) ==
    LET parentId == parentIdById(d, id)
    IN  IF parentId = Undefined THEN Undefined
        ELSE IF parentId \in astNodeById(d) \cup contextNodeById(d) THEN parentId
        ELSE Undefined

\* The children of a node whose kind is the given one, in order.
childIdsOfKind(d, id, kind) ==
    SelectSeq(NodeOf(d, id).children, LAMBDA c : NodeOf(d, c).kind = kind)

(* ------------------------- leaf selection ------------------------------ *)

\* closerAstNode as it would be if every leaf left of the position replaced
\* the current one, whatever their code units.
closerAstNodeLast(d, position, maybeCurrentNode, newNode) ==
    LET newNodePositionStart == NodeOf(d, newNode)
    IN  IF newNodePositionStart.lineNumber > position.lineNumber
        THEN maybeCurrentNode
        ELSE IF /\ newNodePositionStart.lineNumber = position.lineNumber
                /\ newNodePositionStart.lineCodeUnit >= position.lineCodeUnit
        THEN maybeCurrentNode
        ELSE newNode

\* closerAstNode as it would be if a leaf starting at the position counted
\* as left of it.
closerAstNodeAtOrBefore(d, position, maybeCurrentNode, newNode) ==
    LET newNodePositionStart == NodeOf(d, newNode)
        rejected ==
            \/ newNodePositionStart.lineNumber > position.lineNumber
            \/ /\ newNodePositionStart.lineNumber = position.lineNumber
               /\ newNodePositionStart.lineCodeUnit > position.lineCodeUnit
    IN  IF rejected THEN maybeCurrentNode
        ELSE IF maybeCurrentNode = Undefined THEN newNode
        ELSE IF newNodePositionStart.codeUnit > NodeOf(d, maybeCurrentNode).codeUnit
        THEN newNode
        ELSE maybeCurrentNode

\* closerAstNode: the one of the current node and the new node that is the
\* traversal root so far.
closerAstNode(d, position, maybeCurrentNode, newNode) ==
    LET newNodePositionStart == NodeOf(d, newNode)
    IN  IF maybeCurrentNode = Undefined
        THEN IF newNodePositionStart.lineNumber > position.lineNumber
             THEN Undefined
             ELSE IF /\ newNodePositionStart.lineNumber = position.lineNumber
                     /\ newNodePositionStart.lineCodeUnit >= position.lineCodeUnit
             THEN Undefined
             ELSE newNode
        ELSE LET currentNodePositionStart == NodeOf(d, maybeCurrentNode)
             IN  IF newNodePositionStart.lineNumber > position.lineNumber
                 THEN maybeCurrentNode
                 ELSE IF /\ newNodePositionStart.lineNumber = position.lineNumber
                         /\ newNodePositionStart.lineCodeUnit >= position.lineCodeUnit
                 THEN maybeCurrentNode
                 ELSE IF newNodePositionStart.codeUnit > currentNodePositionStart.codeUnit
                 THEN newNode
                 ELSE maybeCurrentNode

\* The loop of maybeClosestAstNode from the i-th leaf id on; an exception of
\* expectAstNode ends the loop and leaves the function.
RECURSIVE closestFrom(_, _, _, _, _)
closestFrom(d, position, leafNodeIds, i, maybeClosestNode) ==
    IF i > Len(leafNodeIds) THEN maybeClosestNode
    ELSE LET newNode == expectAstNode(d, leafNodeIds[i])
         IN  IF newNode = Thrown THEN Thrown
             ELSE closestFrom(d, position, leafNodeIds, i + 1,
                              closerAstNode(d, position, maybeClosestNode, newNode))

\* maybeClosestAstNode: the traversal root, undefined, or an exception.
maybeClosestAstNode(d, position, leafNodeIds) ==
    closestFrom(d, position, leafNodeIds, 1, Undefined)

(* ----------------------- position identifier --------------------------- *)

\* maybePositionIdentifier as it would be if the last branch returned the
\* leaf instead of undefined.
maybePositionIdentifierAnyLeaf(d, closestLeaf) ==
    LET leaf == NodeOf(d, closestLeaf)
    IN  IF leaf.kind = "Constant" /\ leaf.literal = "@"
        THEN LET maybeParentId == parentIdById(d, closestLeaf)
             IN  IF maybeParentId = Undefined THEN Undefined
                 ELSE LET parent == expectAstNode(d, maybeParentId)
                      IN  IF parent = Thrown THEN Thrown
                          ELSE IF NodeOf(d, parent).kind = "IdentifierExpression"
                          THEN NodeOf(d, parent).identifier
                          ELSE Undefined
        ELSE closestLeaf

\* maybePositionIdentifier: the identifier the caret leaf stands for,
\* undefined, or an exception of expectAstNode.
maybePositionIdentifier(d, closestLeaf) ==
    LET leaf == NodeOf(d, closestLeaf)
    IN  IF leaf.kind = "Constant" /\ leaf.literal = "@"
        THEN LET maybeParentId == parentIdById(d, closestLeaf)
             IN  IF maybeParentId = Undefined THEN Undefined
                 ELSE LET parent == expectAstNode(d, maybeParentId)
                      IN  IF parent = Thrown THEN Thrown
                          ELSE IF NodeOf(d, parent).kind = "IdentifierExpression"
                          THEN NodeOf(d, parent).identifier
                          ELSE Undefined
        ELSE IF leaf.kind = "Identifier" \/ leaf.kind = "GeneralizedIdentifier"
        THEN closestLeaf
        ELSE Undefined

\* The parentIdById lookups maybePositionIdentifier makes for a leaf.
positionIdentifierLookups(d, closestLeaf) ==
    IF NodeOf(d, closestLeaf).kind = "Constant" /\ NodeOf(d, closestLeaf).literal = "@"
    THEN 1 ELSE 0

\* addParentXorNode: the parent of the node if one exists, as a list.
addParentXorNode(d, xorNode) ==
    LET maybeParent == maybeParentXorNode(d, xorNode)
    IN  IF maybeParent # Undefined THEN <<maybeParent>> ELSE <<>>

(* ------------------------ inspection visitor --------------------------- *)

\* The node kinds the visitor cannot handle: a visit of one fails.
UnhandledKinds == {"Unhandled"}

\* Map.has and Map.get of result.scope, a list of <<key, node>> entries in
\* insertion order.
scopeHas(scope, key) == \E i \in 1..Len(scope) : scope[i][1] = key
scopeGet(scope, key) ==
    scope[CHOOSE i \in 1..Len(scope) : scope[i][1] = key][2]

\* The literal of a node's first Identifier child, "" if it has none yet.
keyLiteral(d, id) ==
    LET keys == childIdsOfKind(d, id, "Identifier")
    IN  IF keys = <<>> THEN "" ELSE NodeOf(d, keys[1]).literal

\* The binding of a `key = value` node, none while the value is missing.
pairedBinding(d, id) ==
    LET children == NodeOf(d, id).children
    IN  IF Len(children) = 3 /\ keyLiteral(d, id) # ""
        THEN << <<keyLiteral(d, id), children[3]>> >>
        ELSE <<>>

RECURSIVE bindingsOf(_, _)
\* The bindings of a list of `key = value` nodes, in order.
bindingsOf(d, ids) ==
    IF ids = <<>> THEN <<>>
    ELSE pairedBinding(d, Head(ids)) \o bindingsOf(d, Tail(ids))

RECURSIVE parametersOf(_, _)
\* The name of each Parameter node of a list, bound to the parameter.
parametersOf(d, ids) ==
    IF ids = <<>> THEN <<>>
    ELSE (IF keyLiteral(d, Head(ids)) = "" THEN <<>>
          ELSE << <<keyLiteral(d, Head(ids)), Head(ids)>> >>)
         \o parametersOf(d, Tail(ids))

\* TRUE iff the node is an IdentifierExpression written `@name`.
isSelfReference(d, id) ==
    /\ NodeOf(d, id).kind = "IdentifierExpression"
    /\ \E i \in 1..Len(NodeOf(d, id).children) :
          LET c == NodeOf(d, NodeOf(d, id).children[i])
          IN  c.kind = "Constant" /\ c.literal = "@"

\* The names a visited node injects into the scope, in order; nodes holds
\* the nodes visited before it, the last of them the child it was reached
\* from.
scopeContribution(d, id, nodes) ==
    LET kind == NodeOf(d, id).kind
        from == IF nodes = <<>> THEN Undefined ELSE nodes[Len(nodes)]
    IN  CASE kind = "EachExpression" -> << <<"_", id>> >>
          [] kind = "FunctionExpression" ->
                LET lists == childIdsOfKind(d, id, "ParameterList")
                IN  IF lists = <<>> THEN <<>>
                    ELSE parametersOf(d, childIdsOfKind(d, lists[1], "Parameter"))
          [] kind = "LetExpression" ->
                LET pairs == childIdsOfKind(d, id, "IdentifierPairedExpression")
                    visible ==
                        IF \E i \in 1..Len(pairs) : pairs[i] = from
                        THEN SubSeq(pairs, 1,
                                    (CHOOSE i \in 1..Len(pairs) : pairs[i] = from) - 1)
                        ELSE pairs
                IN  bindingsOf(d, visible)
          [] kind = "IdentifierPairedExpression" ->
                IF /\ \E i \in 1..Len(nodes) : isSelfReference(d, nodes[i])
                   /\ \A i \in 1..Len(nodes) :
                         NodeOf(d, nodes[i]).kind # "IdentifierPairedExpression"
                   /\ keyLiteral(d, id) # ""
                THEN << <<keyLiteral(d, id), id>> >>
                ELSE <<>>
          [] OTHER -> <<>>

\* addToScope as it would be if a later write replaced an earlier one.
addToScopeLastWins(d, statePositionIdentifier, result, key, definition) ==
    LET kept == SelectSeq(result.scope, LAMBDA e : e[1] # key)
        added == [result EXCEPT !.scope = Append(kept, <<key, definition>>)]
    IN  IF /\ ~scopeHas(result.scope, key)
           /\ statePositionIdentifier # Undefined
           /\ result.maybePositionIdentifier = Absent
           /\ NodeOf(d, statePositionIdentifier).literal = key
        THEN [added EXCEPT !.maybePositionIdentifier =
                 [kind |-> "Local", identifier |-> statePositionIdentifier,
                  definition |-> definition]]
        ELSE added

\* One scope addition: a key already in scope is kept (first write wins);
\* an added key that is the caret identifier's literal resolves it, once.
addToScope(d, statePositionIdentifier, result, key, definition) ==
    IF scopeHas(result.scope, key) THEN result
    ELSE LET added == [result EXCEPT !.scope = Append(@, <<key, definition>>)]
         IN  IF /\ statePositionIdentifier # Undefined
                /\ result.maybePositionIdentifier = Absent
                /\ NodeOf(d, statePositionIdentifier).literal = key
             THEN [added EXCEPT !.maybePositionIdentifier =
                      [kind |-> "Local", identifier |-> statePositionIdentifier,
                       definition |-> definition]]
             ELSE added

RECURSIVE addAllToScope(_, _, _, _)
\* The scope additions of one visited node, in order.
addAllToScope(d, statePositionIdentifier, result, entries) ==
    IF entries = <<>> THEN result
    ELSE addAllToScope(d, statePositionIdentifier,
                       addToScope(d, statePositionIdentifier, result,
                                  Head(entries)[1], Head(entries)[2]),
                       Tail(entries))

\* visitNode: the visit of one node of the parent chain; it appends the
\* node's descriptor, adds the node's names to the scope, or fails.
visitNode(d, statePositionIdentifier, result, xorNode) ==
    IF NodeOf(d, xorNode).kind \in UnhandledKinds
    THEN [kind |-> "Err", error |-> xorNode]
    ELSE [kind |-> "Ok",
          result |-> addAllToScope(d, statePositionIdentifier,
                        [result EXCEPT !.nodes = Append(@, xorNode)],
                        scopeContribution(d, xorNode, result.nodes))]

(* -------------------------- traversal driver --------------------------- *)

RECURSIVE tryTraverseXor(_, _, _, _, _, _)

\* The step of the traversal after the visit of a node: the failure of the
\* visit ends it, the node's parent continues it, the root completes it.
traverseVisited(d, statePositionIdentifier, result, xorNode, visits, lookups, visited) ==
    IF visited.kind = "Err"
    THEN [tried |-> [kind |-> "Err", error |-> visited.error],
          result |-> result, visits |-> visits + 1, lookups |-> lookups]
    ELSE IF addParentXorNode(d, xorNode) = <<>>
    THEN [tried |-> [kind |-> "Ok", value |-> visited.result],
          result |-> visited.result,
          visits |-> visits + 1, lookups |-> lookups + 1]
    ELSE tryTraverseXor(d, statePositionIdentifier, visited.result,
                        addParentXorNode(d, xorNode)[1], visits + 1, lookups + 1)

\* Traverse.tryTraverseXor with addParentXorNode as the expansion: it
\* visits the node, then its parent, and so on up to the root or the first
\* failing visit.  It yields the tried traversal, state.result as the
\* traversal left it, and the visits and parent lookups made.
tryTraverseXor(d, statePositionIdentifier, result, xorNode, visits, lookups) ==
    traverseVisited(d, statePositionIdentifier, result, xorNode, visits, lookups,
                    visitNode(d, statePositionIdentifier, result, xorNode))

(* ------------------------------ tryFrom -------------------------------- *)

\* The result tryFrom starts the traversal with.
EmptyResult == [nodes |-> <<>>, scope |-> <<>>, maybePositionIdentifier |-> Absent]

\* The end of tryFrom as it would be if the kind of the tried traversal
\* were not looked at.
tryFromReturnIgnoringKind(triedTraverse, statePositionIdentifier, stateResult) ==
    IF /\ statePositionIdentifier # Undefined
       /\ stateResult.maybePositionIdentifier = Absent
    THEN [kind |-> "Ok",
          value |-> [(IF triedTraverse.kind = "Ok" THEN triedTraverse.value
                      ELSE EmptyResult)
                     EXCEPT !.maybePositionIdentifier =
                         [kind |-> "Undefined",
                          identifier |-> statePositionIdentifier]]]
    ELSE triedTraverse

\* The end of tryFrom as it would be if a position identifier the traversal
\* had set were not looked at.
tryFromReturnOverwriting(triedTraverse, statePositionIdentifier, stateResult) ==
    IF /\ triedTraverse.kind = "Ok"
       /\ statePositionIdentifier # Undefined
    THEN [kind |-> "Ok",
          value |-> [triedTraverse.value EXCEPT !.maybePositionIdentifier =
                        [kind |-> "Undefined",
                         identifier |-> statePositionIdentifier]]]
    ELSE triedTraverse

\* The end of tryFrom: an identifier at the position whose definition the
\* traversal did not find becomes an Undefined position identifier; any
\* other tried traversal is returned as it is.
tryFromReturn(triedTraverse, statePositionIdentifier, stateResult) ==
    IF /\ triedTraverse.kind = "Ok"
       /\ statePositionIdentifier # Undefined
       /\ stateResult.maybePositionIdentifier = Absent
    THEN [kind |-> "Ok",
          value |-> [triedTraverse.value EXCEPT !.maybePositionIdentifier =
                        [kind |-> "Undefined",
                         identifier |-> statePositionIdentifier]]]
    ELSE triedTraverse

\* What a call of tryFrom did: ret is what the caller gets (a tagged result
\* or an exception), byRef tells that ret.value is the DefaultInspection
\* object itself; the other fields are the locals of the call.
Outcome(ret, byRef, leaf, spi, tried, visits, lookups) ==
    [ret |-> ret, byRef |-> byRef, closestLeaf |-> leaf,
     statePositionIdentifier |-> spi, triedTraverse |-> tried,
     visits |-> visits, lookups |-> lookups]

NotRun == [kind |-> "NotRun"]

\* tryFrom from line 80 on: the traversal has been tried.
tryFromTraversed(closestLeaf, spi, t) ==
    Outcome(tryFromReturn(t.tried, spi, t.result), FALSE, closestLeaf, spi,
            t.tried, t.visits, t.lookups)

\* tryFrom from line 64 on: state.maybePositionIdentifier has been computed,
\* or maybePositionIdentifier has thrown.
tryFromIdentified(d, closestLeaf, spi) ==
    IF spi = Thrown
    THEN Outcome([kind |-> "Thrown"], FALSE, closestLeaf, Undefined, NotRun, 0,
                 positionIdentifierLookups(d, closestLeaf))
    ELSE tryFromTraversed(closestLeaf, spi,
             tryTraverseXor(d, spi, EmptyResult, closestLeaf, 0,
                            positionIdentifierLookups(d, closestLeaf)))

\* tryFrom from line 47 on: the closest leaf has been looked for, or
\* maybeClosestAstNode has thrown.
tryFromSelected(d, defaultInspection, maybeClosestLeaf) ==
    IF maybeClosestLeaf = Thrown
    THEN Outcome([kind |-> "Thrown"], FALSE, Undefined, Undefined, NotRun, 0, 0)
    ELSE IF maybeClosestLeaf = Undefined
    THEN Outcome([kind |-> "Ok", value |-> defaultInspection], TRUE,
                 Undefined, Undefined, NotRun, 0, 0)
    ELSE tryFromIdentified(d, maybeClosestLeaf,
                           maybePositionIdentifier(d, maybeClosestLeaf))

\* tryFrom, with the DefaultInspection object as it is at the call.
tryFrom(position, d, leafNodeIds, defaultInspection) ==
    tryFromSelected(d, defaultInspection,
                    maybeClosestAstNode(d, position, leafNodeIds))

(* ------------------------------ inputs --------------------------------- *)

Positions ==
    {[lineNumber |-> l, lineCodeUnit |-> c] : l \in 0..MaxLine, c \in 0..MaxCol}

\* Every order of a list.
AllOrders(s) ==
    {[i \in 1..Len(s) |-> s[f[i]]] :
        f \in {g \in [1..Len(s) -> 1..Len(s)] :
                  \A i, j \in 1..Len(s) : i # j => g[i] # g[j]}}

\* A list rotated by k places, and a list reversed.
Rotated(s, k) == [i \in 1..Len(s) |-> s[((i + k - 1) % Len(s)) + 1]]
Reversed(s) == [i \in 1..Len(s) |-> s[Len(s) + 1 - i]]

\* The orders in which a document's leaf ids are handed to tryFrom.
LeafOrders(d) ==
    LET ids == DocLeafIds(d)
    IN  IF Len(ids) <= MaxPermLen THEN AllOrders(ids)
        ELSE {ids, Reversed(ids), Rotated(ids, 1), Rotated(ids, Len(ids) \div 2)}

\* The calls of tryFrom: a position, a document's NodeIdMap.Collection and
\* the document's leaf ids in some order.
Inputs ==
    UNION {{[doc |-> d, position |-> p, leafNodeIds |-> ids] :
               p \in Positions, ids \in LeafOrders(d)} : d \in Docs}

\* The calls a caller makes again to compare the two results.
RepeatInputs ==
    {i \in Inputs : /\ i.position.lineCodeUnit <= MaxRepeatCol
                    /\ i.leafNodeIds = DocLeafIds(i.doc)}

(* ------------------------------- lexer --------------------------------- *)
(* The line lexer and the lexer snapshot, as the tests of                   *)
(* src/src/test/libraryTest/lexer/multilineTokens.ts describe them.  A text *)
(* is a list of characters, a position a 0-based index as in the code.      *)

LINE_TERMINATOR == "\n"

CommentOpen == <<"/", "*">>
CommentClose == <<"*", "/">>
TextQuote == <<"\"">>
QuotedOpen == <<"#", "\"">>
Letters == {"a", "b", "c"}
Whitespace == {" "}

\* text[i] of the code: "" stands for undefined, past the end of the text.
charAt(text, i) == IF i >= 0 /\ i < Len(text) THEN text[i + 1] ELSE ""

RECURSIVE indexOfFrom(_, _, _)
\* text.indexOf(pattern, from): the first index, or -1.
indexOfFrom(text, pattern, from) ==
    IF from + Len(pattern) > Len(text) THEN 0 - 1
    ELSE IF SubSeq(text, from + 1, from + Len(pattern)) = pattern THEN from
    ELSE indexOfFrom(text, pattern, from + 1)

RECURSIVE indexOfStringEnd(_, _)
\* The index of the quote that ends a text literal or a quoted identifier
\* searched from a position, or -1; a doubled quote is an escape.
indexOfStringEnd(text, from) ==
    IF indexOfFrom(text, TextQuote, from) < 0 THEN 0 - 1
    ELSE IF charAt(text, indexOfFrom(text, TextQuote, from) + 1) = "\""
    THEN indexOfStringEnd(text, indexOfFrom(text, TextQuote, from) + 2)
    ELSE indexOfFrom(text, TextQuote, from)

RECURSIVE endOfLetters(_, _)
\* The index after the letters of an identifier that starts at a position.
endOfLetters(text, from) ==
    IF charAt(text, from) \in Letters THEN endOfLetters(text, from + 1) ELSE from

\* The line token kinds of a construct that may span lines, by line mode.
WholeKind(mode) ==
    CASE mode = "Comment" -> "MultilineComment"
      [] mode = "Text" -> "TextLiteral"
      [] mode = "QuotedIdentifier" -> "Identifier"
StartKind(mode) ==
    CASE mode = "Comment" -> "MultilineCommentStart"
      [] mode = "Text" -> "TextLiteralStart"
      [] mode = "QuotedIdentifier" -> "QuotedIdentifierStart"
ContentKind(mode) ==
    CASE mode = "Comment" -> "MultilineCommentContent"
      [] mode = "Text" -> "TextLiteralContent"
      [] mode = "QuotedIdentifier" -> "QuotedIdentifierContent"
EndKind(mode) ==
    CASE mode = "Comment" -> "MultilineCommentEnd"
      [] mode = "Text" -> "TextLiteralEnd"
      [] mode = "QuotedIdentifier" -> "QuotedIdentifierEnd"
MultilineModes == {"Comment", "Text", "QuotedIdentifier"}

\* A line token: its kind, its text and its code units within the line.
LineToken(kind, text, positionStart, positionEnd) ==
    [kind |-> kind, data |-> SubSeq(text, positionStart + 1, positionEnd),
     positionStart |-> positionStart, positionEnd |-> positionEnd]

\* The index at which the construct opened at a position ends on its line
\* (the index after its closer), or -1 if it does not end on the line.
closeAfter(text, mode, from) ==
    IF mode = "Comment"
    THEN (IF indexOfFrom(text, CommentClose, from) < 0 THEN 0 - 1
          ELSE indexOfFrom(text, CommentClose, from) + 2)
    ELSE (IF indexOfStringEnd(text, from) < 0 THEN 0 - 1
          ELSE indexOfStringEnd(text, from) + 1)

\* The line mode a construct opens at a position of a line in default mode,
\* "Default" if none opens there.
openedAt(text, pos) ==
    IF charAt(text, pos) = "/" /\ charAt(text, pos + 1) = "*" THEN "Comment"
    ELSE IF charAt(text, pos) = "\"" THEN "Text"
    ELSE IF charAt(text, pos) = "#" /\ charAt(text, pos + 1) = "\"" THEN "QuotedIdentifier"
    ELSE "Default"

\* The length of the opener of a construct.
openerLength(mode) == IF mode = "Text" THEN 1 ELSE 2

RECURSIVE tokenizeFrom(_, _, _, _)

\* A construct opened at pos whose end on the line is known (-1: none):
\* a whole token and the rest of the line, or a Start token up to the end
\* of the line, which leaves the line in the construct's mode.
tokenizeOpened(text, pos, mode, tokens, closed) ==
    IF closed < 0
    THEN [tokens |-> Append(tokens, LineToken(StartKind(mode), text, pos, Len(text))),
          lineModeEnd |-> mode]
    ELSE tokenizeFrom(text, closed, "Default",
                      Append(tokens, LineToken(WholeKind(mode), text, pos, closed)))

\* A line that starts inside a construct whose end on the line is known:
\* a Content token for the whole line, or an End token and the rest of the
\* line in default mode.
tokenizeContentOrEnd(text, mode, tokens, closed) ==
    IF closed < 0
    THEN [tokens |-> Append(tokens, LineToken(ContentKind(mode), text, 0, Len(text))),
          lineModeEnd |-> mode]
    ELSE tokenizeFrom(text, closed, "Default",
                      Append(tokens, LineToken(EndKind(mode), text, 0, closed)))

\* The tokens of a line from a position on, given the line mode there, and
\* the line mode at the end of the line.  An empty line has no tokens and
\* keeps the mode.
tokenizeFrom(text, pos, mode, tokens) ==
    IF pos >= Len(text) THEN [tokens |-> tokens, lineModeEnd |-> mode]
    ELSE IF mode \in MultilineModes
    THEN tokenizeContentOrEnd(text, mode, tokens, closeAfter(text, mode, 0))
    ELSE IF charAt(text, pos) \in Whitespace
    THEN tokenizeFrom(text, pos + 1, mode, tokens)
    ELSE IF openedAt(text, pos) \in MultilineModes
    THEN tokenizeOpened(text, pos, openedAt(text, pos), tokens,
                        closeAfter(text, openedAt(text, pos),
                                   pos + openerLength(openedAt(text, pos))))
    ELSE IF charAt(text, pos) \in Letters
    THEN tokenizeFrom(text, endOfLetters(text, pos), mode,
                      Append(tokens, LineToken("Identifier", text, pos,
                                               endOfLetters(text, pos))))
    ELSE [tokens |-> tokens, lineModeEnd |-> "Error"]

\* The tokens of one line lexed in the line mode the previous line ended in.
tokenize(text, lineModeStart) == tokenizeFrom(text, 0, lineModeStart, <<>>)

RECURSIVE joinLines(_)
\* The text of a list of lines: the lines joined by the line terminator.
joinLines(lines) ==
    IF lines = <<>> THEN <<>>
    ELSE IF Len(lines) = 1 THEN lines[1]
    ELSE lines[1] \o <<LINE_TERMINATOR>> \o joinLines(Tail(lines))

RECURSIVE splitLines(_, _)
\* The lines of a text, split at the line terminators; current holds the
\* line read so far.
splitLines(text, current) ==
    IF text = <<>> THEN <<current>>
    ELSE IF Head(text) = LINE_TERMINATOR
    THEN <<current>> \o splitLines(Tail(text), <<>>)
    ELSE splitLines(Tail(text), Append(current, Head(text)))

RECURSIVE lineStartNoTerminator(_, _)
\* lineStart as it would be if the line terminators were not counted.
lineStartNoTerminator(lines, lineNumber) ==
    IF lineNumber <= 1 THEN 0
    ELSE lineStartNoTerminator(lines, lineNumber - 1) + Len(lines[lineNumber - 1])

RECURSIVE lineStart(_, _)
\* The index in the whole text of the first character of a line (1-based
\* line number): the lines before it and their terminators.
lineStart(lines, lineNumber) ==
    IF lineNumber <= 1 THEN 0
    ELSE lineStart(lines, lineNumber - 1) + Len(lines[lineNumber - 1]) + 1

\* The tokens of one line with their positions in the whole text.
flatLine(lines, lineTokens, lineNumber) ==
    [i \in 1..Len(lineTokens[lineNumber]) |->
        [kind |-> lineTokens[lineNumber][i].kind,
         data |-> lineTokens[lineNumber][i].data,
         textStart |-> lineStart(lines, lineNumber)
                         + lineTokens[lineNumber][i].positionStart,
         textEnd |-> lineStart(lines, lineNumber)
                       + lineTokens[lineNumber][i].positionEnd]]

RECURSIVE flattenLineTokens(_, _, _)
\* The tokens of the lines from a line on, as one list in source order.
flattenLineTokens(lines, lineTokens, lineNumber) ==
    IF lineNumber > Len(lineTokens) THEN <<>>
    ELSE flatLine(lines, lineTokens, lineNumber)
         \o flattenLineTokens(lines, lineTokens, lineNumber + 1)

\* The line mode whose Start token a line token kind is, "Default" if none.
modeOfStart(kind) ==
    IF \E m \in MultilineModes : StartKind(m) = kind
    THEN CHOOSE m \in MultilineModes : StartKind(m) = kind
    ELSE "Default"

RECURSIVE skipContent(_, _, _)
\* The index of the first token from an index on that is not a Content
\* token of the mode.
skipContent(flat, i, mode) ==
    IF i <= Len(flat) /\ flat[i].kind = ContentKind(mode)
    THEN skipContent(flat, i + 1, mode)
    ELSE i

RECURSIVE snapshotFrom(_, _, _, _)

\* The run of a construct from its Start token at index i to the token at
\* index j after its Content tokens: with an End token there the run is one
\* comment or one token whose text is the source from the start of the
\* Start token to the end of the End token; without one the snapshot fails.
snapshotRun(text, flat, i, j, snapshot) ==
    IF j > Len(flat) \/ flat[j].kind # EndKind(modeOfStart(flat[i].kind))
    THEN [snapshot EXCEPT !.kind = "Err"]
    ELSE IF modeOfStart(flat[i].kind) = "Comment"
    THEN snapshotFrom(text, flat, j + 1,
             [snapshot EXCEPT !.comments = Append(@,
                 [kind |-> "Multiline",
                  data |-> SubSeq(text, flat[i].textStart + 1, flat[j].textEnd)])])
    ELSE snapshotFrom(text, flat, j + 1,
             [snapshot EXCEPT !.tokens = Append(@,
                 [kind |-> WholeKind(modeOfStart(flat[i].kind)),
                  data |-> SubSeq(text, flat[i].textStart + 1, flat[j].textEnd)])])

\* The snapshot of the flat line tokens from an index on: comments and
\* tokens, each list in source order.
snapshotFrom(text, flat, i, snapshot) ==
    IF i > Len(flat) THEN snapshot
    ELSE IF flat[i].kind = "MultilineComment"
    THEN snapshotFrom(text, flat, i + 1,
             [snapshot EXCEPT !.comments = Append(@,
                 [kind |-> "Multiline", data |-> flat[i].data])])
    ELSE IF modeOfStart(flat[i].kind) # "Default"
    THEN snapshotRun(text, flat, i,
                     skipContent(flat, i + 1, modeOfStart(flat[i].kind)), snapshot)
    ELSE IF \E m \in MultilineModes : flat[i].kind \in {ContentKind(m), EndKind(m)}
    THEN [snapshot EXCEPT !.kind = "Err"]
    ELSE snapshotFrom(text, flat, i + 1,
             [snapshot EXCEPT !.tokens = Append(@,
                 [kind |-> flat[i].kind, data |-> flat[i].data])])

\* The lexer snapshot of lexed lines.
LexerSnapshot(lines, lineTokens) ==
    snapshotFrom(joinLines(lines), flattenLineTokens(lines, lineTokens, 1), 1,
                 [kind |-> "Ok", tokens |-> <<>>, comments |-> <<>>])

\* The texts of one line of the body of a construct.
LineContents == {<<>>, <<"X">>, <<"/", "a">>}

\* The texts lexed: one construct that may span lines, its body of 1 to
\* MaxBodyLines lines, after `abc ` or not, before ` abc` or not.
LexInputs ==
    UNION {{[mode |-> m, body |-> b, before |-> x, after |-> y] :
               m \in MultilineModes, b \in [1..n -> LineContents],
               x \in BOOLEAN, y \in BOOLEAN} : n \in 1..MaxBodyLines}

Opener(mode) ==
    CASE mode = "Comment" -> CommentOpen
      [] mode = "Text" -> TextQuote
      [] mode = "QuotedIdentifier" -> QuotedOpen
Closer(mode) == IF mode = "Comment" THEN CommentClose ELSE TextQuote

\* The source span of the construct of an input, line terminators included.
ConstructText(input) ==
    Opener(input.mode) \o joinLines(input.body) \o Closer(input.mode)

\* The text of an input.
SourceText(input) ==
    (IF input.before THEN <<"a", "b", "c", " ">> ELSE <<>>)
    \o ConstructText(input)
    \o (IF input.after THEN <<" ", "a", "b", "c">> ELSE <<>>)

(* --------------------------- state machine ----------------------------- *)

VARIABLES
    DefaultInspection,   \* the module's DefaultInspection object
    call,                \* the call of tryFrom the caller has just made
    callerHoldsDefault,  \* a call has handed DefaultInspection to the caller
    first,               \* an earlier call the caller kept: input and result
    lexer                \* the lexer: its text, the lines lexed, the snapshot

vars == <<DefaultInspection, call, callerHoldsDefault, first, lexer>>

None == [kind |-> "None"]

\* The lexer before a text is handed to it.
LexerIdle == [phase |-> "Idle"]

Init ==
    /\ DefaultInspection = EmptyResult
    /\ call = None
    /\ callerHoldsDefault = FALSE
    /\ first = None
    /\ lexer = LexerIdle

\* The caller calls tryFrom(input) and gets its result.
Call(input) ==
    /\ call = None
    /\ call' = [kind |-> "Returned", input |-> input]
                 @@ tryFrom(input.position, input.doc, input.leafNodeIds,
                            DefaultInspection)
    /\ callerHoldsDefault' = (callerHoldsDefault \/ call'.byRef)
    /\ UNCHANGED <<DefaultInspection, lexer>>

TryFrom ==
    /\ \E input \in Inputs : Call(input)
    /\ UNCHANGED first

\* The caller is done with the result of the call.
Discard ==
    /\ call # None
    /\ call' = None
    /\ UNCHANGED <<DefaultInspection, callerHoldsDefault, first, lexer>>

\* The caller appends to the nodes list of a default inspection it was
\* handed: Inspected.nodes is a TNode[], the list of DefaultInspection.
CallerPushNode ==
    /\ callerHoldsDefault
    /\ Len(DefaultInspection.nodes) < MaxCallerWrites
    /\ DefaultInspection' =
           [DefaultInspection EXCEPT !.nodes = Append(@, CallerNode)]
    /\ UNCHANGED <<call, callerHoldsDefault, first, lexer>>

\* The caller sets a key of the scope map of a default inspection it was
\* handed: Inspected.scope is a Map, the map of DefaultInspection.
CallerSetScope ==
    /\ callerHoldsDefault
    /\ LET written == IF DefaultInspection.scope = <<>> THEN 0
                      ELSE DefaultInspection.scope[1][2]
       IN  /\ written < MaxCallerWrites
           /\ DefaultInspection' =
                  [DefaultInspection EXCEPT !.scope = << <<CallerKey, written + 1>> >>]
    /\ UNCHANGED <<call, callerHoldsDefault, first, lexer>>

Next == TryFrom \/ Discard \/ CallerPushNode \/ CallerSetScope

Spec == Init /\ [][Next]_vars

\* The caller calls tryFrom and keeps the input and the result as returned.
TryFromFirst ==
    /\ first = None
    /\ \E input \in RepeatInputs :
          /\ Call(input)
          /\ first' = [kind |-> "Kept", input |-> input, ret |-> call'.ret]

\* The caller calls tryFrom after the call it kept.
TryFromAgain ==
    /\ first # None
    /\ \E input \in RepeatInputs : Call(input)
    /\ UNCHANGED first

NextRepeat ==
    TryFromFirst \/ TryFromAgain \/ Discard \/ CallerPushNode \/ CallerSetScope

SpecRepeat == Init /\ [][NextRepeat]_vars

\* Lexer.stateFrom: the lexer takes a text and splits it into lines.
LexStateFrom ==
    /\ lexer = LexerIdle
    /\ \E input \in LexInputs :
          lexer' = [phase |-> "Lexing", input |-> input,
                    lines |-> splitLines(SourceText(input), <<>>),
                    lineTokens |-> <<>>, lineMode |-> "Default",
                    snapshot |-> None]
    /\ UNCHANGED <<DefaultInspection, call, callerHoldsDefault, first>>

\* The lexer tokenizes its next line in the mode the line before ended in.
LexTokenizeLine ==
    /\ lexer.phase = "Lexing"
    /\ Len(lexer.lineTokens) < Len(lexer.lines)
    /\ lexer' = [lexer EXCEPT
          !.lineTokens = Append(@, tokenize(lexer.lines[Len(lexer.lineTokens) + 1],
                                            lexer.lineMode).tokens),
          !.lineMode = tokenize(lexer.lines[Len(lexer.lineTokens) + 1],
                                lexer.lineMode).lineModeEnd]
    /\ UNCHANGED <<DefaultInspection, call, callerHoldsDefault, first>>

\* The snapshot of the lexer is taken once every line is tokenized.
LexSnapshot ==
    /\ lexer.phase = "Lexing"
    /\ Len(lexer.lineTokens) = Len(lexer.lines)
    /\ lexer' = [lexer EXCEPT
          !.phase = "Snapshot",
          !.snapshot = LexerSnapshot(lexer.lines, lexer.lineTokens)]
    /\ UNCHANGED <<DefaultInspection, call, callerHoldsDefault, first>>

\* The lexer and its snapshot are dropped.
LexDiscard ==
    /\ lexer.phase = "Snapshot"
    /\ lexer' = LexerIdle
    /\ UNCHANGED <<DefaultInspection, call, callerHoldsDefault, first>>

NextLexer == LexStateFrom \/ LexTokenizeLine \/ LexSnapshot \/ LexDiscard

SpecLexer == Init /\ [][NextLexer]_vars

(* ------------------------------ claims --------------------------------- *)

Returned == call.kind = "Returned"

\* The leaf ids of the call, and whether all of them are in astNodeById.
LeafIds == {call.input.leafNodeIds[i] : i \in 1..Len(call.input.leafNodeIds)}
LeafIdsInAst == LeafIds \subseteq astNodeById(call.input.doc)

\* A leaf's start strictly precedes p: an earlier line, or the same line
\* and an earlier column.
StrictlyPrecedes(d, id, p) ==
    \/ NodeOf(d, id).lineNumber < p.lineNumber
    \/ /\ NodeOf(d, id).lineNumber = p.lineNumber
       /\ NodeOf(d, id).lineCodeUnit < p.lineCodeUnit

LeavesBefore == {id \in LeafIds : StrictlyPrecedes(call.input.doc, id, call.input.position)}

\* The leaf of greatest start code unit in a set of leaves, none if empty.
RightMost(d, ids) ==
    IF ids = {} THEN Undefined
    ELSE CHOOSE id \in ids : \A o \in ids : NodeOf(d, o).codeUnit <= NodeOf(d, id).codeUnit

LeavesAtPosition ==
    {id \in LeafIds :
        /\ NodeOf(call.input.doc, id).lineNumber = call.input.position.lineNumber
        /\ NodeOf(call.input.doc, id).lineCodeUnit = call.input.position.lineCodeUnit}

C3_EachUnderscoreAtCaret ==
    (/\ Returned
     /\ call.input.doc = "DocEach"
     /\ call.input.position = [lineNumber |-> 0, lineCodeUnit |-> 5]) =>
        /\ call.closestLeaf = 5
        /\ call.ret.kind = "Ok"
        /\ call.ret.value.scope = << <<"_", 1>> >>
        /\ call.ret.value.maybePositionIdentifier =
              [kind |-> "Local", identifier |-> 5, definition |-> 1]

\* C4: when no leaf of the leaf-id list (its ids all in astNodeById) starts
\* strictly before the position, tryFrom returns Ok with empty nodes, empty
\* scope and no position identifier, and made no visit and no parent lookup.
C4_DefaultInspectionIsEmpty ==
    (Returned /\ LeafIdsInAst /\ LeavesBefore = {}) =>
        /\ call.ret = [kind |-> "Ok", value |-> EmptyResult]
        /\ call.visits = 0
        /\ call.lookups = 0

\* C5: every call of tryFrom ends by returning a tagged result, Ok or Err;
\* no exception leaves tryFrom.
C5_AlwaysTaggedResult ==
    Returned => call.ret.kind \in {"Ok", "Err"}

\* C6: when the traversal failed, tryFrom returns exactly that failure: an
\* Err that carries no value, so no nodes, scope or position identifier.
C6_FailureReturnedVerbatim ==
    (Returned /\ call.triedTraverse.kind = "Err") =>
        /\ call.ret = call.triedTraverse
        /\ call.ret.kind = "Err"
        /\ "value" \notin DOMAIN call.ret

\* C6 witness: the traversal failed after visits that added to the scope,
\* the caret leaf being an identifier without a definition.
C6_Witness ==
    /\ Returned
    /\ call.triedTraverse.kind = "Err"
    /\ call.statePositionIdentifier # Undefined
    /\ call.visits > 1

\* C7: when the traversal succeeded and the caret leaf yields an identifier,
\* tryFrom returns Ok with the nodes and the scope of the traversal; the
\* position identifier is Undefined { that identifier } if the traversal set
\* none, and the Local the traversal set otherwise.
C7_UndefinedIdentifier ==
    (/\ Returned
     /\ call.triedTraverse.kind = "Ok"
     /\ call.statePositionIdentifier # Undefined) =>
        /\ call.ret.kind = "Ok"
        /\ call.ret.value.nodes = call.triedTraverse.value.nodes
        /\ call.ret.value.scope = call.triedTraverse.value.scope
        /\ IF call.triedTraverse.value.maybePositionIdentifier = Absent
           THEN call.ret.value.maybePositionIdentifier =
                    [kind |-> "Undefined",
                     identifier |-> call.statePositionIdentifier]
           ELSE /\ call.ret.value.maybePositionIdentifier =
                      call.triedTraverse.value.maybePositionIdentifier
                /\ call.ret.value.maybePositionIdentifier.kind = "Local"

\* C7 witness: an identifier at the caret that no ancestor binds, under
\* ancestors that bind another name.
C7_Witness ==
    /\ Returned
    /\ call.triedTraverse.kind = "Ok"
    /\ call.statePositionIdentifier # Undefined
    /\ call.triedTraverse.value.maybePositionIdentifier = Absent
    /\ call.ret.value.scope # <<>>
    /\ call.ret.value.maybePositionIdentifier.kind = "Undefined"

\* The caret leaf is an identifier, or an `@` under an IdentifierExpression.
CaretLeafIsIdentifier ==
    LET d == call.input.doc
        leaf == NodeOf(d, call.closestLeaf)
    IN  \/ leaf.kind \in {"Identifier", "GeneralizedIdentifier"}
        \/ /\ leaf.kind = "Constant" /\ leaf.literal = "@"
           /\ leaf.parent # Undefined
           /\ NodeOf(d, leaf.parent).kind = "IdentifierExpression"

\* C8: when the caret leaf is neither an identifier nor an `@` under an
\* IdentifierExpression, an Ok result has no position identifier.
C8_NoIdentifierNoPositionIdentifier ==
    (/\ Returned
     /\ call.closestLeaf # Undefined
     /\ call.ret.kind = "Ok"
     /\ ~CaretLeafIsIdentifier) =>
        call.ret.value.maybePositionIdentifier = Absent

\* C8 witness: the caret leaf is an `@` under a parent of another kind and
\* the result is Ok.
C8_Witness ==
    /\ Returned
    /\ call.closestLeaf # Undefined
    /\ call.ret.kind = "Ok"
    /\ NodeOf(call.input.doc, call.closestLeaf).literal = "@"
    /\ NodeOf(call.input.doc, call.closestLeaf).parent # Undefined
    /\ ~CaretLeafIsIdentifier

\* C9: in an Ok result with a Local position identifier, the identifier's
\* literal is a key of the scope and the scope maps it to the definition.
C9_LocalDefinitionInScope ==
    (/\ Returned
     /\ call.ret.kind = "Ok"
     /\ call.ret.value.maybePositionIdentifier.kind = "Local") =>
        LET local == call.ret.value.maybePositionIdentifier
            literal == NodeOf(call.input.doc, local.identifier).literal
        IN  /\ scopeHas(call.ret.value.scope, literal)
            /\ scopeGet(call.ret.value.scope, literal) = local.definition

\* C9 witness: a Local result where an ancestor visited later binds the
\* same name to another node.
C9_Witness ==
    /\ Returned
    /\ call.ret.kind = "Ok"
    /\ call.ret.value.maybePositionIdentifier.kind = "Local"
    /\ LET d == call.input.doc
           local == call.ret.value.maybePositionIdentifier
           nodes == call.ret.value.nodes
       IN  \E i \in 1..Len(nodes) :
              LET entries == scopeContribution(d, nodes[i], SubSeq(nodes, 1, i - 1))
              IN  \E k \in 1..Len(entries) :
                     /\ entries[k][1] = NodeOf(d, local.identifier).literal
                     /\ entries[k][2] # local.definition

\* C10: a call of tryFrom with the input of an earlier call returns a
\* result structurally equal to the one the earlier call returned, whatever
\* calls were made and whatever the caller did with the records in between.
C10_Idempotent ==
    (Returned /\ first # None /\ call.input = first.input) =>
        call.ret = first.ret

\* The kind and the text of each token of a list.
Abridged(tokens) ==
    [i \in 1..Len(tokens) |-> <<tokens[i].kind, tokens[i].data>>]

AbcToken == <<"Identifier", <<"a", "b", "c">>>>

\* The line tokens the construct of an input has on its k-th line.
ExpectedConstructTokens(input, k) ==
    LET n == Len(input.body)
        m == input.mode
    IN  IF n = 1 THEN << <<WholeKind(m), ConstructText(input)>> >>
        ELSE IF k = 1 THEN << <<StartKind(m), Opener(m) \o input.body[1]>> >>
        ELSE IF k = n THEN << <<EndKind(m), input.body[n] \o Closer(m)>> >>
        ELSE IF input.body[k] = <<>> THEN <<>>
        ELSE << <<ContentKind(m), input.body[k]>> >>

\* The line tokens of the k-th line of an input, its neighbours included.
ExpectedLineTokens(input, k) ==
    (IF k = 1 /\ input.before THEN <<AbcToken>> ELSE <<>>)
    \o ExpectedConstructTokens(input, k)
    \o (IF k = Len(input.body) /\ input.after THEN <<AbcToken>> ELSE <<>>)

====
